---- MODULE Spec2Model ----
(***************************************************************************)
(* A state-machine model of the notebook 05-unpooled_model.ipynb: the      *)
(* Python names its cells bind, run top to bottom, and the external Stan   *)
(* sampler it calls.                                                       *)
(*                                                                         *)
(* A Python name is modelled by a sequence of length 0 (the name is not    *)
(* bound) or 1 (bound to that value).  A Python string holding Stan code   *)
(* is a sequence of blocks, so that "+" on strings is \o.  A numpy array   *)
(* of shape RxC is a sequence of R rows of C entries.  A mean is kept as   *)
(* the fraction [num, den]; a standard deviation as the fraction under    *)
(* its square root.                                                        *)
(***************************************************************************)
EXTENDS Integers, Sequences, FiniteSets

VARIABLES pc, clean_data, unpooled_data, unpooled_parameters,
          unpooled_transformed_parameters, unpooled_model,
          unpooled_data_dict, unpooled_fit, unpooled_estimates, unpooled_se,
          order, figure, stan_calls, exc, log

vars == <<pc, clean_data, unpooled_data, unpooled_parameters,
          unpooled_transformed_parameters, unpooled_model,
          unpooled_data_dict, unpooled_fit, unpooled_estimates, unpooled_se,
          order, figure, stan_calls, exc, log>>

----------------------------------------------------------------------------
(* Bounds of the model.  NumCounties stands for the 85 counties of the     *)
(* data set, Iter for the 1000 iterations asked of the sampler.            *)

NumCounties == 3
MaxHouseholds == 2
Iter == 2

(* Program constants. *)
Chains == 2
SigmaUpper == 100

(* The values the enumerated inputs are drawn from. *)
FloorValues == {0, 1}
LogRadonValues == {0, 1}
AValues == {0, 1}
BetaValues == {-1, 2}

----------------------------------------------------------------------------
(* Python names *)

Unbound == << >>
Bind(v) == << v >>
IsBound(name) == Len(name) = 1
Val(name) == name[1]

RECURSIVE SumSeq(_)
SumSeq(s) == IF s = << >> THEN 0 ELSE Head(s) + SumSeq(Tail(s))

----------------------------------------------------------------------------
(* The clean_data module: one row per household, all columns of the same   *)
(* length; county holds zero-based positions into mn_counties.             *)

CountyNames == << "AITKIN", "ANOKA", "BECKER", "BELTRAMI", "BENTON" >>

mn_counties == SubSeq(CountyNames, 1, NumCounties)

CleanData(county, floor_measure, log_radon) ==
    [ county        |-> county,
      floor_measure |-> floor_measure,
      log_radon     |-> log_radon,
      mn_counties   |-> mn_counties ]

CleanDataSets ==
    UNION { { CleanData(c, f, y) :
                c \in [1..n -> 0..(NumCounties - 1)],
                f \in [1..n -> FloorValues],
                y \in [1..n -> LogRadonValues] } : n \in 1..MaxHouseholds }

(* One data set with MaxHouseholds households spread over the counties. *)
ReferenceData ==
    CleanData([i \in 1..MaxHouseholds |-> (i - 1) % NumCounties],
              [i \in 1..MaxHouseholds |-> i % 2],
              [i \in 1..MaxHouseholds |-> i % 2])

----------------------------------------------------------------------------
(* The four Stan blocks, each a Python string *)

Decl(name, type, lower, upper, dims, len) ==
    [ name |-> name, type |-> type, lower |-> lower, upper |-> upper,
      dims |-> dims, len |-> len ]

DataBlock ==
    << [ block |-> "data",
         decls |-> << Decl("N", "int", <<0>>, << >>, "scalar", 0),
                      Decl("county", "int", <<1>>, <<NumCounties>>, "N", 0),
                      Decl("x", "vector", << >>, << >>, "N", 0),
                      Decl("y", "vector", << >>, << >>, "N", 0) >>,
         stmts |-> << >> ] >>

(* Mutant: the vector a is declared one entry short. *)
ParametersBlock_Short ==
    << [ block |-> "parameters",
         decls |-> << Decl("a", "vector", << >>, << >>, "fixed", NumCounties - 1),
                      Decl("beta", "real", << >>, << >>, "scalar", 0),
                      Decl("sigma", "real", <<0>>, <<SigmaUpper>>, "scalar", 0) >>,
         stmts |-> << >> ] >>

ParametersBlock ==
    << [ block |-> "parameters",
         decls |-> << Decl("a", "vector", << >>, << >>, "fixed", NumCounties),
                      Decl("beta", "real", << >>, << >>, "scalar", 0),
                      Decl("sigma", "real", <<0>>, <<SigmaUpper>>, "scalar", 0) >>,
         stmts |-> << >> ] >>

TransformedParametersBlock ==
    << [ block |-> "transformed parameters",
         decls |-> << Decl("y_hat", "vector", << >>, << >>, "N", 0) >>,
         stmts |-> << "for (i in 1:N) y_hat[i] <- beta * x[i] + a[county[i]];" >> ] >>

ModelBlock ==
    << [ block |-> "model",
         decls |-> << >>,
         stmts |-> << "y ~ normal(y_hat, sigma);" >> ] >>

----------------------------------------------------------------------------
(* Cell 6, first statement: the data dictionary *)

(* Mutant: the county indices are passed as Python counts them. *)
DataDict_NoOffset(cd) ==
    [ N      |-> Len(cd.log_radon),
      county |-> cd.county,
      x      |-> cd.floor_measure,
      y      |-> cd.log_radon ]

(* Mutant: N is the number of counties, not of measurements. *)
DataDict_CountiesAsN(cd) ==
    [ N      |-> Len(cd.mn_counties),
      county |-> [i \in DOMAIN cd.county |-> cd.county[i] + 1],
      x      |-> cd.floor_measure,
      y      |-> cd.log_radon ]

DataDict(cd) ==
    [ N      |-> Len(cd.log_radon),
      county |-> [i \in DOMAIN cd.county |-> cd.county[i] + 1],
      x      |-> cd.floor_measure,
      y      |-> cd.log_radon ]

(* Mutant: the parameters and transformed parameters blocks change places. *)
ModelCode_Swapped(d, p, t, m) == d \o t \o p \o m

(* Cell 6, second statement: the model_code argument *)
ModelCode(d, p, t, m) == d \o p \o t \o m

StanCall(d, p, t, m, dict) ==
    [ model_code |-> ModelCode(d, p, t, m),
      data       |-> dict,
      iter       |-> Iter,
      chains     |-> Chains ]

----------------------------------------------------------------------------
(* The external sampler, pystan.stan *)

BlockNames(code) == [i \in DOMAIN code |-> code[i].block]

StanProgramOK(code) ==
    BlockNames(code) = << "data", "parameters", "transformed parameters", "model" >>

InBounds(d, v) ==
    /\ (IF d.lower = << >> THEN TRUE ELSE v >= d.lower[1])
    /\ (IF d.upper = << >> THEN TRUE ELSE v <= d.upper[1])

(* The data conform to the declarations of the data block. *)
DeclOK(d, data) ==
    /\ d.name \in DOMAIN data
    /\ IF d.dims = "scalar"
       THEN InBounds(d, data[d.name])
       ELSE /\ Len(data[d.name]) = data["N"]
            /\ \A i \in DOMAIN data[d.name] : InBounds(d, data[d.name][i])

StanDataOK(code, data) ==
    \A k \in DOMAIN code[1].decls : DeclOK(code[1].decls[k], data)

(* Half of the iterations of each chain are warmup and are not kept. *)
Warmup(iter) == iter \div 2
Kept(iter, chains) == chains * (iter - Warmup(iter))

(* The length declared for parameter vector name in the parameters block. *)
DeclaredLen(code, name) ==
    LET ds == code[2].decls
        k  == CHOOSE k \in DOMAIN ds : ds[k].name = name
    IN  ds[k].len

(* Mutant: one intercept for all the counties. *)
y_hat_Pooled(N, x, county, a, beta) ==
    [i \in 1..N |-> beta * x[i] + a[1]]

(* The transformed parameter of one draw. *)
y_hat(N, x, county, a, beta) ==
    [i \in 1..N |-> beta * x[i] + a[county[i]]]

(* The draws of a the sampler may return: every matrix over AValues, or,   *)
(* to keep the product with the data sets small, two matrices whose draws  *)
(* are all equal, ascending or descending over the counties.               *)
ADraws(full, R, J) ==
    IF full
    THEN [1..R -> [1..J -> AValues]]
    ELSE { [r \in 1..R |-> [j \in 1..J |-> j]],
           [r \in 1..R |-> [j \in 1..J |-> J - j]] }

(* The draws of beta, all equal: of any value, or of the largest one when *)
(* every matrix of a is enumerated.                                        *)
BetaDraws(full, R) ==
    { [r \in 1..R |-> << b >>] :
        b \in IF full THEN { 2 } ELSE BetaValues }

StanFit(call, a, beta) ==
    LET R == Kept(call.iter, call.chains)
        d == call.data
    IN  [ pars |-> [ a     |-> a,
                     beta  |-> beta,
                     sigma |-> [r \in 1..R |-> << 1 >>],
                     y_hat |-> [r \in 1..R |->
                                  y_hat(d.N, d.x, d.county, a[r], beta[r][1])] ],
          iter   |-> call.iter,
          chains |-> call.chains ]

(* The exceptions one call may raise: the program or the data are         *)
(* rejected, or else the sampler may fail for a reason of its own.         *)
StanErrors(call) ==
    IF ~StanProgramOK(call.model_code)
    THEN { "ValueError" }
    ELSE { "RuntimeError" }

(* The call may return a fit. *)
StanAccepts(call) ==
    /\ StanProgramOK(call.model_code)
    /\ StanDataOK(call.model_code, call.data)

(* The draws of the fits a call that is accepted may return. *)
StanDraws(call, full) ==
    ADraws(full, Kept(call.iter, call.chains), DeclaredLen(call.model_code, "a"))
        \X BetaDraws(full, Kept(call.iter, call.chains))

(* unpooled_fit[key] *)
GetItem(fit, key) == fit.pars[key]

----------------------------------------------------------------------------
(* numpy and pandas *)

Column(arr, j) == [r \in DOMAIN arr |-> arr[r][j]]

NCols(arr) == Len(arr[1])

(* Mutant: the column sums, not divided by the number of rows. *)
Mean0_Sum(arr) ==
    [j \in 1..NCols(arr) |->
        [ num |-> SumSeq(Column(arr, j)), den |-> 1 ]]

(* arr.mean(0): the mean of every column, over the rows *)
Mean0(arr) ==
    [j \in 1..NCols(arr) |->
        [ num |-> SumSeq(Column(arr, j)), den |-> Len(arr) ]]

(* arr.std(0): the square root of the mean of the squared deviations from  *)
(* the column mean.  With S the column sum and R the number of rows, the  *)
(* deviation of x is (R*x - S)/R.                                          *)
Std0(arr) ==
    [j \in 1..NCols(arr) |->
        LET R == Len(arr)
            S == SumSeq(Column(arr, j))
        IN  [ num |-> SumSeq([r \in 1..R |-> (R * arr[r][j] - S) * (R * arr[r][j] - S)]),
              den |-> R * R * R ]]

(* pd.Series(values, index=index): the lengths must agree *)
SeriesOK(values, index) == Len(values) = Len(index)
Series(values, index) == [ index |-> index, values |-> values ]

(* series[label] *)
Loc(series, label) ==
    series.values[CHOOSE k \in DOMAIN series.index : series.index[k] = label]

Leq(p, q) == p.num * q.den <= q.num * p.den

Perms(n) ==
    { f \in [1..n -> 1..n] : \A i, j \in 1..n : f[i] = f[j] => i = j }

(* series.sort_values().index: the labels by ascending value; the place   *)
(* of equal values among themselves is the sort's choice.                  *)
SortedIndexes(series) ==
    LET n == Len(series.values)
    IN  { [i \in 1..n |-> series.index[f[i]]] :
            f \in { g \in Perms(n) :
                      \A i, j \in 1..n :
                         i < j => Leq(series.values[g[i]], series.values[g[j]]) } }

(* Mutant: the estimates are plotted in the order of the county names. *)
Scatter_Unordered(est, ord) ==
    [i \in 1..Len(est.values) |-> << i - 1, est.values[i] >>]

(* plt.scatter(range(len(est)), est[order]) *)
Scatter(est, ord) ==
    [i \in 1..Len(est.values) |-> << i - 1, Loc(est, ord[i]) >>]

(* the plt.plot([i,i], [m - se, m + se]) of the loop over zip(...) *)
ErrorBars(est, se, ord) ==
    [i \in 1..Len(est.values) |->
        [ x |-> i - 1, m |-> Loc(est, ord[i]), se |-> Loc(se, ord[i]) ]]

Figure(est, se, ord) ==
    [ points |-> Scatter(est, ord),
      bars   |-> ErrorBars(est, se, ord),
      xlim   |-> << -1, NumCounties + 1 >> ]

----------------------------------------------------------------------------
(* The cells, run top to bottom.  pc is the next cell to run; a cell that  *)
(* raises binds nothing more and is recorded in exc.                       *)

(* Mutant: the exception is caught and dropped. *)
Raise_Caught(cell, error) == exc' = exc

Raise(cell, error) == exc' = Append(exc, [ cell |-> cell, error |-> error ])

Init ==
    /\ pc = 1
    /\ clean_data = Unbound
    /\ unpooled_data = Unbound
    /\ unpooled_parameters = Unbound
    /\ unpooled_transformed_parameters = Unbound
    /\ unpooled_model = Unbound
    /\ unpooled_data_dict = Unbound
    /\ unpooled_fit = Unbound
    /\ unpooled_estimates = Unbound
    /\ unpooled_se = Unbound
    /\ order = Unbound
    /\ figure = Unbound
    /\ stan_calls = << >>
    /\ exc = << >>
    /\ log = << >>

(* import clean_data *)
Cell1(datasets) ==
    /\ pc = 1
    /\ \E cd \in datasets : clean_data' = Bind(cd)
    /\ pc' = 2
    /\ log' = Append(log, "load")
    /\ UNCHANGED << unpooled_data, unpooled_parameters,
                    unpooled_transformed_parameters, unpooled_model,
                    unpooled_data_dict, unpooled_fit, unpooled_estimates,
                    unpooled_se, order, figure, stan_calls, exc >>

Cell2 ==
    /\ pc = 2
    /\ unpooled_data' = Bind(DataBlock)
    /\ pc' = 3
    /\ log' = Append(log, "data block")
    /\ UNCHANGED << clean_data, unpooled_parameters,
                    unpooled_transformed_parameters, unpooled_model,
                    unpooled_data_dict, unpooled_fit, unpooled_estimates,
                    unpooled_se, order, figure, stan_calls, exc >>

Cell3 ==
    /\ pc = 3
    /\ unpooled_parameters' = Bind(ParametersBlock)
    /\ pc' = 4
    /\ log' = Append(log, "parameters block")
    /\ UNCHANGED << clean_data, unpooled_data,
                    unpooled_transformed_parameters, unpooled_model,
                    unpooled_data_dict, unpooled_fit, unpooled_estimates,
                    unpooled_se, order, figure, stan_calls, exc >>

Cell4 ==
    /\ pc = 4
    /\ unpooled_transformed_parameters' = Bind(TransformedParametersBlock)
    /\ pc' = 5
    /\ log' = Append(log, "transformed parameters block")
    /\ UNCHANGED << clean_data, unpooled_data, unpooled_parameters,
                    unpooled_model,
                    unpooled_data_dict, unpooled_fit, unpooled_estimates,
                    unpooled_se, order, figure, stan_calls, exc >>

(* Mutant: the cell of the model block is not run before the fit. *)
Cell5_Skipped ==
    /\ pc = 5
    /\ pc' = 6
    /\ UNCHANGED << clean_data, unpooled_data, unpooled_parameters,
                    unpooled_transformed_parameters, unpooled_model,
                    unpooled_data_dict, unpooled_fit, unpooled_estimates,
                    unpooled_se, order, figure, stan_calls, exc, log >>

Cell5 ==
    /\ pc = 5
    /\ unpooled_model' = Bind(ModelBlock)
    /\ pc' = 6
    /\ log' = Append(log, "model block")
    /\ UNCHANGED << clean_data, unpooled_data, unpooled_parameters,
                    unpooled_transformed_parameters,
                    unpooled_data_dict, unpooled_fit, unpooled_estimates,
                    unpooled_se, order, figure, stan_calls, exc >>

(* The data dictionary, then the call of the sampler.  The dictionary     *)
(* stays bound when the call raises; unpooled_fit is bound only when the  *)
(* call returns.                                                           *)
Cell6(full) ==
    /\ pc = 6
    /\ pc' = 7
    /\ UNCHANGED << clean_data, unpooled_data, unpooled_parameters,
                    unpooled_transformed_parameters, unpooled_model,
                    unpooled_estimates, unpooled_se, order, figure >>
    /\ IF ~IsBound(clean_data)
       THEN /\ Raise(6, "NameError")
            /\ UNCHANGED << unpooled_data_dict, unpooled_fit, stan_calls, log >>
       ELSE LET dict == DataDict(Val(clean_data))
            IN  /\ unpooled_data_dict' = Bind(dict)
                /\ IF \E s \in { unpooled_data, unpooled_parameters,
                                  unpooled_transformed_parameters,
                                  unpooled_model } : ~IsBound(s)
                   THEN /\ Raise(6, "NameError")
                        /\ log' = Append(log, "data dict")
                        /\ UNCHANGED << unpooled_fit, stan_calls >>
                   ELSE LET call == StanCall(Val(unpooled_data),
                                             Val(unpooled_parameters),
                                             Val(unpooled_transformed_parameters),
                                             Val(unpooled_model), dict)
                        IN  /\ stan_calls' = Append(stan_calls, call)
                            /\ log' = log \o << "data dict", "sample" >>
                            /\ \/ \E error \in StanErrors(call) :
                                     /\ Raise(6, error)
                                     /\ unpooled_fit' = unpooled_fit
                               \/ /\ StanAccepts(call)
                                  /\ \E d \in StanDraws(call, full) :
                                        unpooled_fit' =
                                            Bind(StanFit(call, d[1], d[2]))
                                  /\ exc' = exc

(* unpooled_estimates and unpooled_se *)
Cell7 ==
    /\ pc = 7
    /\ pc' = 8
    /\ UNCHANGED << clean_data, unpooled_data, unpooled_parameters,
                    unpooled_transformed_parameters, unpooled_model,
                    unpooled_data_dict, unpooled_fit, order, figure,
                    stan_calls >>
    /\ IF ~IsBound(unpooled_fit) \/ ~IsBound(clean_data)
       THEN /\ Raise(7, "NameError")
            /\ UNCHANGED << unpooled_estimates, unpooled_se, log >>
       ELSE LET a     == GetItem(Val(unpooled_fit), "a")
                index == Val(clean_data).mn_counties
            IN  IF ~SeriesOK(Mean0(a), index)
                THEN /\ Raise(7, "ValueError")
                     /\ log' = log \o << "extract a", "mean" >>
                     /\ UNCHANGED << unpooled_estimates, unpooled_se >>
                ELSE /\ unpooled_estimates' = Bind(Series(Mean0(a), index))
                     /\ unpooled_se' = Bind(Series(Std0(a), index))
                     /\ log' = log \o << "extract a", "mean", "extract a", "std" >>
                     /\ exc' = exc

(* order, and the plot *)
Cell8 ==
    /\ pc = 8
    /\ pc' = 9
    /\ UNCHANGED << clean_data, unpooled_data, unpooled_parameters,
                    unpooled_transformed_parameters, unpooled_model,
                    unpooled_data_dict, unpooled_fit, unpooled_estimates,
                    unpooled_se, stan_calls >>
    /\ IF ~IsBound(unpooled_estimates) \/ ~IsBound(unpooled_se)
       THEN /\ Raise(8, "NameError")
            /\ UNCHANGED << order, figure, log >>
       ELSE /\ \E ord \in SortedIndexes(Val(unpooled_estimates)) :
                 /\ order' = Bind(ord)
                 /\ figure' = Bind(Figure(Val(unpooled_estimates),
                                          Val(unpooled_se), ord))
            /\ log' = log \o << "sort", "plot" >>
            /\ exc' = exc

(* Every data set, with the sampler returning one of two matrices of draws. *)
Next ==
    \/ Cell1(CleanDataSets)
    \/ Cell2
    \/ Cell3
    \/ Cell4
    \/ Cell5
    \/ Cell6(FALSE)
    \/ Cell7
    \/ Cell8

Spec == Init /\ [][Next]_vars

(* One data set, with the sampler returning any draws of a. *)
NextFit ==
    \/ Cell1({ ReferenceData })
    \/ Cell2
    \/ Cell3
    \/ Cell4
    \/ Cell5
    \/ Cell6(TRUE)
    \/ Cell7
    \/ Cell8

SpecFit == Init /\ [][NextFit]_vars

----------------------------------------------------------------------------
(* Properties *)

Dict == Val(unpooled_data_dict)
Data == Val(clean_data)
Fit == Val(unpooled_fit)
Est == Val(unpooled_estimates)
Se == Val(unpooled_se)

DeclOf(string, name) ==
    LET ds == string[1].decls
    IN  ds[CHOOSE k \in DOMAIN ds : ds[k].name = name]

DeclNames(string) == { string[1].decls[k].name : k \in DOMAIN string[1].decls }

RECURSIVE SetSum(_, _)
SetSum(f, S) ==
    IF S = {} THEN 0
    ELSE LET x == CHOOSE x \in S : TRUE IN f[x] + SetSum(f, S \ {x})

Range(s) == { s[i] : i \in DOMAIN s }

IsPrefix(s, t) == Len(s) <= Len(t) /\ s = SubSeq(t, 1, Len(s))

Raised(cell) == \E k \in DOMAIN exc : exc[k].cell = cell

(* C1: for every household i the county placed in unpooled_data_dict is    *)
(* clean_data.county[i] + 1; the zero-based indices become exactly the     *)
(* indices the data block declares, from its lower bound 1 to its upper    *)
(* bound, the number of counties; no household keeps index 0 or receives   *)
(* an index above the number of counties.                                  *)
C1_CountyOffset ==
    IsBound(unpooled_data_dict) =>
        LET decl == DeclOf(Val(unpooled_data), "county")
        IN  /\ DOMAIN Dict.county = DOMAIN Data.county
            /\ decl.lower = << 1 >>
            /\ decl.upper = << Len(Data.mn_counties) >>
            /\ \A i \in DOMAIN Data.county :
                  /\ Dict.county[i] = Data.county[i] + 1
                  /\ Dict.county[i] # 0
                  /\ Dict.county[i] >= decl.lower[1]
                  /\ Dict.county[i] <= decl.upper[1]
                  /\ Data.county[i] = 0 => Dict.county[i] = decl.lower[1]
                  /\ Data.county[i] = Len(Data.mn_counties) - 1
                        => Dict.county[i] = decl.upper[1]

C1_Witness ==
    /\ IsBound(unpooled_data_dict)
    /\ \E i, k \in DOMAIN Data.county :
          /\ Data.county[i] = 0
          /\ Dict.county[i] = 1
          /\ Data.county[k] = NumCounties - 1
          /\ Dict.county[k] = NumCounties

(* C2: in every draw of the fit and for every household i, y_hat[i] is     *)
(* beta * x[i] plus the entry of a of the household's own county, the     *)
(* county at position clean_data.county[i] of the county names; so two     *)
(* households of one county, one on the ground floor (x = 1) and one in    *)
(* the basement (x = 0), have predictions that differ by exactly beta.     *)
C2_Prediction ==
    IsBound(unpooled_fit) =>
        \A r \in DOMAIN GetItem(Fit, "y_hat") :
            LET yh   == GetItem(Fit, "y_hat")[r]
                a    == GetItem(Fit, "a")[r]
                beta == GetItem(Fit, "beta")[r][1]
            IN  /\ DOMAIN yh = DOMAIN Data.county
                /\ \A i \in DOMAIN Data.county :
                      yh[i] - beta * Data.floor_measure[i]
                          = a[Data.county[i] + 1]
                /\ \A i, k \in DOMAIN Data.county :
                      ( /\ Data.county[i] = Data.county[k]
                        /\ Data.floor_measure[i] = 1
                        /\ Data.floor_measure[k] = 0 )
                      => yh[i] - yh[k] = beta

C2_Witness ==
    /\ IsBound(unpooled_fit)
    /\ \E i, k \in DOMAIN Data.county :
          /\ Data.county[i] = Data.county[k]
          /\ Data.county[i] > 0
          /\ Data.floor_measure[i] = 1
          /\ Data.floor_measure[k] = 0
          /\ GetItem(Fit, "beta")[1][1] = 2
          /\ GetItem(Fit, "a")[1][Data.county[i] + 1] # GetItem(Fit, "a")[1][1]
          /\ GetItem(Fit, "y_hat")[1][i] = GetItem(Fit, "y_hat")[1][k] + 2

(* C3: the steps of a run occur in the order load, the four model blocks,  *)
(* the data dictionary, the call of the sampler, the extraction of a with  *)
(* its mean and standard deviation, the sort and the plot, each after the  *)
(* one before; the sampler is called at most once, and exactly once in a   *)
(* run without exception; it is never called before the data set, the     *)
(* four blocks and the dictionary exist, and nothing is plotted before     *)
(* the fit has returned.                                                   *)
RunOrder ==
    << "load", "data block", "parameters block",
       "transformed parameters block", "model block", "data dict", "sample",
       "extract a", "mean", "extract a", "std", "sort", "plot" >>

C3_Order ==
    /\ IsPrefix(log, RunOrder)
    /\ Len(stan_calls) <= 1
    /\ pc > 6 => Len(stan_calls) = 1
    /\ Len(stan_calls) = Cardinality({ k \in DOMAIN log : log[k] = "sample" })
    /\ stan_calls # << >> =>
          /\ IsBound(clean_data)
          /\ IsBound(unpooled_data)
          /\ IsBound(unpooled_parameters)
          /\ IsBound(unpooled_transformed_parameters)
          /\ IsBound(unpooled_model)
          /\ IsBound(unpooled_data_dict)
    /\ IsBound(unpooled_estimates) => IsBound(unpooled_fit)
    /\ IsBound(figure) =>
          /\ IsBound(unpooled_fit)
          /\ IsBound(unpooled_estimates)
          /\ IsBound(unpooled_se)
          /\ Len(stan_calls) = 1
    /\ (pc = 9 /\ exc = << >>) =>
          /\ log = RunOrder
          /\ Len(stan_calls) = 1
          /\ IsBound(figure)

C3_Witness ==
    /\ pc = 9
    /\ exc = << >>
    /\ log = RunOrder
    /\ IsBound(figure)

(* C4: the data dictionary has exactly the keys N, county, x and y, the    *)
(* variables the data block declares; N is the number of log-radon         *)
(* measurements, y is that sequence, and county and x have length N too.   *)
C4_DataDict ==
    IsBound(unpooled_data_dict) =>
        /\ DOMAIN Dict = { "N", "county", "x", "y" }
        /\ DOMAIN Dict = DeclNames(Val(unpooled_data))
        /\ Dict.N = Len(Data.log_radon)
        /\ Dict.y = Data.log_radon
        /\ Len(Dict.y) = Dict.N
        /\ Len(Dict.county) = Dict.N
        /\ Len(Dict.x) = Dict.N

C4_Witness ==
    /\ IsBound(unpooled_data_dict)
    /\ Dict.N = MaxHouseholds
    /\ Dict.N > 1
    /\ Dict.y[1] # Dict.y[2]
    /\ Len(Dict.county) = MaxHouseholds
    /\ Len(Dict.x) = MaxHouseholds

(* C5: the sampler is called with model_code the data block, then the      *)
(* parameters block, then the transformed parameters block, then the       *)
(* model block, each once; with unpooled_data_dict as data; and with the   *)
(* iterations and the 2 chains of the call.                                *)
C5_SamplerCall ==
    \A k \in DOMAIN stan_calls :
        LET call == stan_calls[k]
        IN  /\ Len(call.model_code) = 4
            /\ << call.model_code[1] >> = Val(unpooled_data)
            /\ << call.model_code[2] >> = Val(unpooled_parameters)
            /\ << call.model_code[3] >> = Val(unpooled_transformed_parameters)
            /\ << call.model_code[4] >> = Val(unpooled_model)
            /\ BlockNames(call.model_code) =
                  << "data", "parameters", "transformed parameters", "model" >>
            /\ call.data = Dict
            /\ call.iter = Iter
            /\ call.chains = 2

C5_Witness ==
    /\ Len(stan_calls) = 1
    /\ stan_calls[1].data.N = MaxHouseholds
    /\ IsBound(unpooled_fit)

(* C6: indexing the fit by a gives an array with one row per kept draw,    *)
(* the iterations less the warmup half summed over the 2 chains, and one   *)
(* column per county, the length declared for the vector a; indexing it    *)
(* by beta gives as many rows of one entry.                                *)
C6_Shapes ==
    IsBound(unpooled_fit) =>
        LET a    == GetItem(Fit, "a")
            beta == GetItem(Fit, "beta")
            R    == 2 * (Iter - Iter \div 2)
        IN  /\ Len(a) = R
            /\ Len(beta) = R
            /\ \A r \in DOMAIN a : Len(a[r]) = Len(Data.mn_counties)
            /\ \A r \in DOMAIN a :
                  Len(a[r]) = DeclOf(Val(unpooled_parameters), "a").len
            /\ \A r \in DOMAIN beta : Len(beta[r]) = 1

C6_Witness ==
    /\ IsBound(unpooled_fit)
    /\ Len(GetItem(Fit, "a")) > 1
    /\ Len(GetItem(Fit, "a")[1]) = NumCounties
    /\ GetItem(Fit, "a")[1] # GetItem(Fit, "a")[2]

(* C7: unpooled_estimates and unpooled_se are indexed by the county names  *)
(* of clean_data.mn_counties, one entry per county; the entry of the j-th  *)
(* name is the mean, respectively the standard deviation, over all draws   *)
(* of column j of the array a; every standard error is non-negative.       *)
DrawsOf(j) == [r \in DOMAIN GetItem(Fit, "a") |-> GetItem(Fit, "a")[r][j]]

C7_Estimates ==
    IsBound(unpooled_estimates) =>
        LET R == Len(GetItem(Fit, "a"))
            J == Len(Data.mn_counties)
        IN  /\ IsBound(unpooled_se)
            /\ Est.index = Data.mn_counties
            /\ Se.index = Data.mn_counties
            /\ Len(Est.values) = J
            /\ Len(Se.values) = J
            /\ \A j \in 1..J :
                  LET x  == DrawsOf(j)
                      S  == SetSum(x, 1..R)
                      S2 == SetSum([r \in 1..R |-> x[r] * x[r]], 1..R)
                      m  == Est.values[j]
                      v  == Se.values[j]
                  IN  /\ m.den > 0
                      /\ m.den = R
                      /\ m.num * R = S * m.den
                      /\ v.den > 0
                      /\ v.num >= 0
                      /\ v.num * R * R = (R * S2 - S * S) * v.den

C7_Witness ==
    /\ IsBound(unpooled_estimates)
    /\ \E j, k \in 1..NumCounties :
          /\ Est.values[j].num # Est.values[k].num
          /\ Se.values[j].num > 0
          /\ Se.values[k].num = 0
          /\ Est.values[k].num > 0

(* C8: order is a permutation of the county names, every county once,      *)
(* along which the estimates do not decrease; the scatter point at x      *)
(* position i, from 0 to the number of counties less one, has as its y     *)
(* value the (i+1)-th smallest county estimate.                            *)
Ord == Val(order)

C8_Sorted ==
    IsBound(order) =>
        LET J == Len(Est.values)
            Smaller(v) == { k \in 1..J : ~Leq(v, Est.values[k]) }
            NotLarger(v) == { k \in 1..J : Leq(Est.values[k], v) }
        IN  /\ Len(Ord) = J
            /\ Range(Ord) = Range(Data.mn_counties)
            /\ Cardinality(Range(Ord)) = J
            /\ \A i, k \in 1..J :
                  i < k => Leq(Loc(Est, Ord[i]), Loc(Est, Ord[k]))
            /\ IsBound(figure)
            /\ Len(Val(figure).points) = J
            /\ \A i \in 1..J :
                  LET pt == Val(figure).points[i]
                  IN  /\ pt[1] = i - 1
                      /\ pt[2] = Loc(Est, Ord[i])
                      /\ Cardinality(Smaller(pt[2])) <= i - 1
                      /\ Cardinality(NotLarger(pt[2])) >= i

C8_Witness ==
    /\ IsBound(order)
    /\ Ord[1] # Data.mn_counties[1]
    /\ Ord[NumCounties] # Data.mn_counties[NumCounties]
    /\ Val(figure).points[1][2].num < Val(figure).points[NumCounties][2].num
    /\ \E i \in 1..(NumCounties - 1) :
          Val(figure).points[i][2] = Val(figure).points[i + 1][2]

====
